---- MODULE Spec2Model ----
(***************************************************************************)
(* snf-image-creator: the Disk resource manager (image_creator/disk.py)    *)
(* and the session flow that drives it (image_creator/dialog_main.py).     *)
(*                                                                         *)
(* A Disk keeps a list of cleanup jobs (_cleanup_jobs) and a list of       *)
(* DiskDevice handles (_devices).  get_device builds a device-mapper       *)
(* snapshot over the source media, one external command at a time;         *)
(* cleanup unwinds both lists.  Python runs a signal handler between two   *)
(* bytecodes of the main flow, so every step below is one stretch of code  *)
(* between two points where SIGINT can be served, and the running code is  *)
(* a stack of frames: the handler's frame sits on the frame it interrupted.*)
(***************************************************************************)
EXTENDS Integers, Sequences, FiniteSets, TLC

\* ------------------------------------------------------------------ bounds
MaxCalls == 2       \* get_device calls made by the session
MaxCleanups == 1    \* cleanup() calls made by the session body
MaxDestroys == 1    \* destroy_device calls made by the session
MaxSignals == 1     \* SIGINTs delivered during the session
MaxFaults == 2      \* commands and guestfs calls that fail on operands that exist
MaxSectors == 2     \* size of the source media, in 512-byte sectors
MaxMounts == 3      \* mountpoints guestfs finds in the image
MaxPartNum == 5     \* number of the last partition of the image
MaxStart == 2       \* start of the last partition, in 512-byte units
MaxBlocks == 2      \* blocks of the last filesystem once shrunk
MaxOther == 2       \* sysprep tasks of Windows besides shrink and microsoft-sysprep
MaxSyspreps == 2    \* do_sysprep calls on one Windows object
MaxRetries == 4     \* the connection_retries parameter
MaxReclaim == 3     \* MB that diskpart reports reclaimable above the margin
MaxUploads == 3     \* uploads started from the cloud menu in one session
MaxRegisters == 2   \* registrations started from the cloud menu in one session

\* --------------------------------------------------------------- constants
SectorSize == 512   \* bytes in a sector as blockdev --getsize counts them
DdBlock == 1024     \* dd bs=1k
DdSeek == 1024 * 1024   \* dd seek=%d % (1024 * 1024)
Margin == 100       \* MB that Windows.shrink leaves free: querymax -= 100

VARIABLES
    srcType,     \* file type of Disk.source, as os.stat reports it
    srcSize,     \* sectors of the source media, as blockdev --getsize reports
    stack,       \* the running frames, innermost last
    ledger,      \* Disk._cleanup_jobs
    devices,     \* Disk._devices
    handles,     \* the DiskDevice objects get_device has returned
    held,        \* kernel/filesystem resources that exist now
    sessions,    \* DiskDevice objects whose guestfs handle is open
    written,     \* paths the program has opened for writing and written
    tables,      \* the line in each table file and in each device-mapper device
    extent,      \* the size in bytes of each cow file
    gauge,       \* the initialization gauge: which cleanup it has, real runs of it
    mnt,         \* a DiskDevice.mount() call: its locals and the mounts it made
    shr,         \* a DiskDevice.shrink() call: the disk it finds, its locals, its calls
    wsp,         \* a Windows._exec_sysprep_tasks() call: its locals and the tasks it ran
    dsp,         \* Windows.do_sysprep() calls: the media settings, guestfs, the VM
    con,         \* a Windows._check_connectivity() call: its attempts
    wsh,         \* a Windows.shrink() task: the diskpart answer, the commands sent
    ses,         \* the session dictionary of the menus, and the cloud calls made
    invoked,     \* every release job cleanup has called, in call order
    destroyLog,  \* every DiskDevice.destroy() call, in call order
    last,        \* the outcome of the last call that ran to its end
    once,        \* if kept: the release jobs and handles ever executed, and those executed again
    mainpc,      \* image_creator: "body", "finally" or "exited"
    nCalls, nCleanups, nDestroys, nSignals, nFaults

vars == <<srcType, srcSize, stack, ledger, devices, handles, held, sessions,
          written, tables, extent, gauge, mnt, shr, wsp,
          dsp, con, wsh, ses,
          invoked, destroyLog, last, once, mainpc,
          nCalls, nCleanups, nDestroys, nSignals, nFaults>>

\* --------------------------------------------------------------- resources
\* what self.source is: a regular file, a block device, the directory '/',
\* another directory, something else that exists, or a path that does not
SrcTypes == {"REG", "BLK", "ROOT", "DIR", "FIFO", "NOENT"}

Res(kind, k) == [kind |-> kind, k |-> k]
NoRes == Res("none", 0)
Source == Res("source", 0)
OLoop(k) == Res("oloop", k)     \* loop device attached to the source
Cow(k) == Res("cow", k)         \* cow temp file
CLoop(k) == Res("cloop", k)     \* loop device attached to the cow file
Table(k) == Res("table", k)     \* device-mapper table temp file
Dm(k) == Res("dm", k)           \* /dev/mapper/<snapshot>

\* sourcedev of get_device call k
SourceDev(k) == IF srcType = "REG" THEN OLoop(k) ELSE Source

Job(job, arg) == [job |-> job, arg |-> arg]
NoJob == Job("none", NoRes)
LosetupD(loop) == Job("losetup -d", loop)
Unlink(file) == Job("os.unlink", file)
DmRemove(dm) == Job("dmsetup remove", dm)

\* the path a new DiskDevice is opened on
DevicePath_source(k) == SourceDev(k)
DevicePath(k) == Dm(k)

Device(k) == [id |-> k, device |-> DevicePath(k)]
NoDev == [id |-> 0, device |-> NoRes]
\* a DiskDevice this Disk did not create
Stranger == [id |-> 0, device |-> Dm(0)]

\* What a write to a path changes: a loop device writes through to its
\* backing file; a device-mapper snapshot stores every write in its cow
\* device and leaves its origin alone.
RECURSIVE Reaches(_)
Reaches(r) ==
    CASE r.kind = "oloop" -> {r} \cup Reaches(Source)
      [] r.kind = "cloop" -> {r} \cup Reaches(Cow(r.k))
      [] r.kind = "dm" -> {r} \cup Reaches(CLoop(r.k))
      [] OTHER -> {r}

\* ------------------------------------------------------------------ frames
\* a frame (size is get_device's local of that name), with what the two
\* lists and the two logs were when it was entered
Frame(op, pc, k, dev, handler, inv0, dl0) ==
    [op |-> op, pc |-> pc, k |-> k, dev |-> dev, job |-> NoJob, exc |-> FALSE,
     size |-> 0, handler |-> handler,
     ledger0 |-> ledger, devices0 |-> devices, inv0 |-> inv0, dl0 |-> dl0]

NoCall ==
    [op |-> "none", result |-> "none", k |-> 0, dev |-> NoDev, handler |-> FALSE,
     ledger0 |-> <<>>, devices0 |-> <<>>, inv0 |-> 0, dl0 |-> 0]

Summary(f, result) ==
    [op |-> f.op, result |-> result, k |-> f.k, dev |-> f.dev,
     handler |-> f.handler,
     ledger0 |-> f.ledger0, devices0 |-> f.devices0,
     inv0 |-> f.inv0, dl0 |-> f.dl0]

Top == stack[Len(stack)]
Taken_none(list) == list

\* what list.pop() leaves of the list
Taken(list) == SubSeq(list, 1, Len(list) - 1)
Pop(s) == SubSeq(s, 1, Len(s) - 1)
SetTop(s, f) == [s EXCEPT ![Len(s)] = f]
Running(op, pc) == stack /= <<>> /\ Top.op = op /\ Top.pc = pc

\* the statements of get_device inside try: ... finally: os.unlink(table)
TryRegion == {"write_table", "dm_create", "reg_dm"}

\* An exception leaves frame after frame until a try block takes it: the
\* only one is get_device's try/finally.  An exception raised by the signal
\* handler surfaces in the frame the handler interrupted.
RECURSIVE Unwind(_)
Unwind(s) ==
    IF s = <<>> THEN s
    ELSE LET f == s[Len(s)] IN
         IF f.op = "get_device" /\ f.pc \in TryRegion
         THEN SetTop(s, [f EXCEPT !.pc = "finally_unlink", !.exc = TRUE])
         ELSE Unwind(Pop(s))

\* the frames that are left, and the outcome when none is
Ends(s, result) ==
    /\ stack' = s
    /\ IF s = <<>>
       THEN /\ last' = Summary(stack[1], result)
            /\ mainpc' = IF mainpc = "finally" THEN "exited" ELSE mainpc
       ELSE UNCHANGED <<last, mainpc>>

Goto(pc) == stack' = SetTop(stack, [Top EXCEPT !.pc = pc]) /\ UNCHANGED <<last, mainpc>>
Return == Ends(Pop(stack), "ok")
Raise == Ends(Unwind(stack), "raised")
RaiseFrom(s) == Ends(Unwind(s), "raised")

\* ------------------------------------------------------------------- state
\* a new Disk, on any kind of source
FreshDisk ==
    /\ srcType \in SrcTypes
    /\ stack = <<>>
    /\ ledger = <<>>
    /\ devices = <<>>
    /\ handles = {}
    /\ held = {}
    /\ sessions = {}
    /\ written = {}
    /\ tables = {}
    /\ extent = {}
    /\ invoked = <<>>
    /\ destroyLog = <<>>
    /\ last = NoCall
    /\ mainpc = "body"
    /\ nCalls = 0 /\ nCleanups = 0 /\ nDestroys = 0 /\ nSignals = 0

\* the record of what was executed, kept or not for the whole session
Executed(kept) == [kept |-> kept, jobs |-> {}, devs |-> {}, again |-> {}]

\* a new Disk in a session where MaxFaults commands may fail
Fresh == FreshDisk /\ nFaults = 0 /\ once = Executed(FALSE)

\* no DiskDevice.mount() call is being followed
MountIdle == mnt = [pc |-> "idle", found |-> <<>>, mps |-> <<>>, log |-> <<>>]

\* no DiskDevice.shrink() call is being followed
NoShrink ==
    [pc |-> "idle", parttype |-> "none", partNum |-> 0, partStart |-> 0,
     fsType |-> "none", blockSize |-> 0, blockCnt |-> 0, sectorSize |-> 0,
     start |-> 0, end |-> 0, ops |-> <<>>,
     result |-> "none", error |-> "none", value |-> <<>>]
ShrinkIdle == shr = NoShrink

\* no Windows._exec_sysprep_tasks() call is being followed
NoSysprep ==
    [pc |-> "idle", tasks |-> <<>>, on |-> {}, enabled |-> <<>>, size |-> 0,
     cnt |-> 0, ran |-> <<>>, executed |-> {}, syspreped |-> FALSE,
     shutdowns |-> 0, result |-> "none"]
SysprepIdle == wsp = NoSysprep

\* no Windows.do_sysprep() call is being followed
NoDoSysprep ==
    [pc |-> "idle", calls |-> 0, winexe |-> TRUE, syspreped |-> FALSE,
     entry |-> FALSE, uac0 |-> 0, uac |-> 0, passwd |-> "old",
     firewalls |-> "old", disabled_uac |-> FALSE, guestfs |-> TRUE,
     vm |-> FALSE, step |-> 0, failed |-> "none", log |-> <<>>,
     msRuns |-> 0,
     result |-> "none", error |-> "none"]
DoSysprepIdle == dsp = NoDoSysprep

\* no Windows._check_connectivity() call is being followed
NoConnectivity == [pc |-> "idle", retries |-> 0, i |-> 0, codes |-> <<>>,
                   result |-> "none"]
\* no Windows.shrink() task is being followed
NoWinShrink == [pc |-> "idle", part |-> 0, answer |-> "none", mb |-> 0,
                answered |-> FALSE,
                querymax |-> <<>>, rc |-> 0, cmds |-> <<>>, warned |-> FALSE,
                result |-> "none", error |-> "none"]
\* the session dictionary as image_creator builds it: no account, no
\* pithos_uri; no upload made, the cloud never contacted
NoSession == [pc |-> "menu", alive |-> TRUE, account |-> FALSE,
              pithos_uri |-> 0, uploads |-> 0, complete |-> {},
              registers |-> 0, contacts |-> {}, last |-> "none"]
OthersIdle ==
    /\ DoSysprepIdle
    /\ con = NoConnectivity
    /\ wsh = NoWinShrink
    /\ ses = NoSession

\* gauge = GaugeOutput(d, "Initialization", "Initializing...")
GaugeShown == gauge = [pc |-> "shown", runs |-> 0]

\* the gauge is up; the operations of DiskDevice and of Windows are at rest
Parked ==
    /\ GaugeShown /\ MountIdle /\ ShrinkIdle /\ SysprepIdle
    /\ OthersIdle

Init == srcSize = MaxSectors /\ Fresh /\ Parked

Media == <<srcType, srcSize>>
\* what belongs to the Disk and the kernel resources behind it
DiskVars == <<srcType, srcSize, stack, ledger, devices, handles, held, sessions,
              written, tables, extent, invoked, destroyLog, last, once, mainpc,
              nCalls, nCleanups, nDestroys, nSignals, nFaults>>
\* what no operation of Disk touches
Apart == <<gauge, mnt, shr, wsp, dsp, con, wsh, ses>>
\* the customization of a Windows image and the cloud menus
Customize == <<dsp, con, wsh, ses>>
\* what the customization and the cloud menus never touch
Base == <<DiskVars, gauge, mnt, shr, wsp>>
Counters == <<nCalls, nCleanups, nDestroys, nSignals, nFaults>>
Calls == <<nCalls, nCleanups, nDestroys, nSignals>>
DiskLists == <<ledger, devices>>
Logs == <<invoked, destroyLog>>
Os == <<held, sessions, written>>

\* Disk._add_cleanup
AddCleanup_skip(jobs, job) == jobs
AddCleanup_front(jobs, job) == <<job>> \o jobs
AddCleanup_replace(jobs, job) == <<job>>
AddCleanup(jobs, job) == Append(jobs, job)

\* while len(self._devices): / while len(self._cleanup_jobs):
More_always(list) == TRUE
More(list) == Len(list) > 0

\* An external command or guestfs call succeeds only on operands that
\* exist, and may fail even then.
Outcomes(present) ==
    IF ~present THEN {FALSE}
    ELSE IF nFaults < MaxFaults THEN {TRUE, FALSE} ELSE {TRUE}
Charge(present, ok) ==
    nFaults' = IF present /\ ~ok THEN nFaults + 1 ELSE nFaults

\* the session makes a call: the logs and the last outcome start afresh
Begin(frame) ==
    /\ stack = <<>>
    /\ stack' = <<frame>>
    /\ invoked' = <<>> /\ destroyLog' = <<>> /\ last' = NoCall
Exists(r) == r = Source \/ r \in held

\* blockdev --getsize: the sectors of the source media, asked of the media
\* itself or of the loop device attached to it
GetSize(dev) == srcSize

\* "0 %d snapshot %s %s n 8" % (int(size), sourcedev, cowdev), field by field
TableLine_swapped(size, sourcedev, cowdev) ==
    <<0, size, "snapshot", cowdev, sourcedev, "n", 8>>
TableLine(size, sourcedev, cowdev) ==
    <<0, size, "snapshot", sourcedev, cowdev, "n", 8>>

\* a file of the given size: mkstemp makes it empty, dd with no input
\* truncates it at seek blocks of bs bytes
Sized(r, bytes) == {e \in extent : e.res /= r} \cup {[res |-> r, bytes |-> bytes]}

\* the line a table file or a device-mapper device holds
Store(r, line) == {t \in tables : t.res /= r} \cup {[res |-> r, line |-> line]}
Drop(r) == {t \in tables : t.res /= r}
Stored(r) == (CHOOSE t \in tables : t.res = r).line

\* -------------------------------------------------------------- get_device
CallGetDevice ==
    /\ mainpc = "body"
    /\ nCalls < MaxCalls
    /\ nCalls' = nCalls + 1
    /\ Begin(Frame("get_device", "stat", nCalls + 1, NoDev, FALSE, 0, 0))
    /\ UNCHANGED <<Media, once, Apart, extent, tables, DiskLists, handles, Os, mainpc,
                   nCleanups, nDestroys, nSignals, nFaults>>

\* the branch without elif not stat.S_ISBLK(mode): raise ValueError
GdStat_noCheck ==
    /\ Running("get_device", "stat")
    /\ CASE srcType = "REG" -> Goto("losetup_src")
         [] srcType \in {"DIR", "ROOT", "NOENT"} -> Raise
         [] OTHER -> Goto("blockdev")
    /\ UNCHANGED <<Media, once, Apart, extent, tables, DiskLists, handles, Os, Logs, Counters>>

\* the branch with a loop device attached to a block device as well
GdStat_loopAll ==
    /\ Running("get_device", "stat")
    /\ CASE srcType \in {"REG", "BLK"} -> Goto("losetup_src")
         [] OTHER -> Raise
    /\ UNCHANGED <<Media, once, Apart, extent, tables, DiskLists, handles, Os, Logs, Counters>>

\* mode = os.stat(self.source).st_mode and the branch on it
GdStat ==
    /\ Running("get_device", "stat")
    /\ CASE srcType = "REG" -> Goto("losetup_src")
         [] srcType = "BLK" -> Goto("blockdev")
         [] OTHER -> Raise
    /\ UNCHANGED <<Media, once, Apart, extent, tables, DiskLists, handles, Os, Logs, Counters>>

\* loop = losetup('-f', '--show', self.source)
GdLosetupSrc ==
    /\ Running("get_device", "losetup_src")
    /\ \E ok \in Outcomes(TRUE) :
          /\ Charge(TRUE, ok)
          /\ IF ok THEN held' = held \cup {OLoop(Top.k)} /\ Goto("reg_src")
             ELSE held' = held /\ Raise
    /\ UNCHANGED <<Media, once, Apart, extent, tables, DiskLists, handles, sessions, written, Logs, Calls>>

\* self._add_cleanup(losetup, '-d', loop)
GdRegSrc ==
    /\ Running("get_device", "reg_src")
    /\ ledger' = AddCleanup(ledger, LosetupD(OLoop(Top.k)))
    /\ Goto("blockdev")
    /\ UNCHANGED <<Media, once, Apart, extent, tables, devices, handles, Os, Logs, Counters>>

\* size = blockdev('--getsize', sourcedev)
GdBlockdev ==
    /\ Running("get_device", "blockdev")
    /\ \E ok \in Outcomes(Exists(SourceDev(Top.k))) :
          /\ Charge(Exists(SourceDev(Top.k)), ok)
          /\ IF ok
             THEN /\ stack' = SetTop(stack, [Top EXCEPT
                                 !.pc = "mkstemp_cow",
                                 !.size = GetSize(SourceDev(Top.k))])
                  /\ UNCHANGED <<last, mainpc>>
             ELSE Raise
    /\ UNCHANGED <<Media, once, Apart, extent, tables, DiskLists, handles, Os, Logs, Calls>>

\* cowfd, cow = tempfile.mkstemp()
GdMkstempCow ==
    /\ Running("get_device", "mkstemp_cow")
    /\ held' = held \cup {Cow(Top.k)}
    /\ extent' = Sized(Cow(Top.k), 0)
    /\ Goto("reg_cow")
    /\ UNCHANGED <<Media, once, Apart, tables, DiskLists, handles, sessions, written, Logs, Counters>>

\* self._add_cleanup(os.unlink, cow)
GdRegCow ==
    /\ Running("get_device", "reg_cow")
    /\ ledger' = AddCleanup(ledger, Unlink(Cow(Top.k)))
    /\ Goto("dd")
    /\ UNCHANGED <<Media, once, Apart, extent, tables, devices, handles, Os, Logs, Counters>>

\* dd('if=/dev/null', 'of=%s' % cow, ...): dd creates its output file when
\* the path does not exist
GdDd ==
    /\ Running("get_device", "dd")
    /\ \E ok \in Outcomes(TRUE) :
          /\ Charge(TRUE, ok)
          /\ IF ok
             THEN /\ held' = held \cup {Cow(Top.k)}
                  /\ written' = written \cup {Cow(Top.k)}
                  /\ extent' = Sized(Cow(Top.k), DdBlock * DdSeek)
                  /\ Goto("losetup_cow")
             ELSE UNCHANGED <<held, written, extent>> /\ Raise
    /\ UNCHANGED <<Media, once, Apart, tables, DiskLists, handles, sessions, Logs, Calls>>

\* cowdev = self._losetup(cow): the losetup call
GdLosetupCow ==
    /\ Running("get_device", "losetup_cow")
    /\ \E ok \in Outcomes(Exists(Cow(Top.k))) :
          /\ Charge(Exists(Cow(Top.k)), ok)
          /\ IF ok THEN held' = held \cup {CLoop(Top.k)} /\ Goto("reg_cowdev")
             ELSE held' = held /\ Raise
    /\ UNCHANGED <<Media, once, Apart, extent, tables, DiskLists, handles, sessions, written, Logs, Calls>>

\* cowdev = self._losetup(cow): the _add_cleanup call
GdRegCowdev ==
    /\ Running("get_device", "reg_cowdev")
    /\ ledger' = AddCleanup(ledger, LosetupD(CLoop(Top.k)))
    /\ Goto("mkstemp_table")
    /\ UNCHANGED <<Media, once, Apart, extent, tables, devices, handles, Os, Logs, Counters>>

\* snapshot = uuid.uuid4().hex; tablefd, table = tempfile.mkstemp()
GdMkstempTable ==
    /\ Running("get_device", "mkstemp_table")
    /\ held' = held \cup {Table(Top.k)}
    /\ Goto("setup_try")
    /\ UNCHANGED <<Media, once, Apart, extent, tables, DiskLists, handles, sessions, written, Logs, Counters>>

\* try:
GdSetupTry ==
    /\ Running("get_device", "setup_try")
    /\ Goto("write_table")
    /\ UNCHANGED <<Media, once, Apart, extent, tables, DiskLists, handles, Os, Logs, Counters>>

\* os.write(tablefd, "0 %d snapshot %s %s n 8" % ...)
GdWriteTable ==
    /\ Running("get_device", "write_table")
    /\ written' = written \cup {Table(Top.k)}
    /\ tables' = Store(Table(Top.k),
                       TableLine(Top.size, SourceDev(Top.k), CLoop(Top.k)))
    /\ Goto("dm_create")
    /\ UNCHANGED <<Media, once, Apart, extent, DiskLists, handles, held, sessions, Logs, Counters>>

\* dmsetup('create', snapshot, table)
GdDmCreate ==
    /\ Running("get_device", "dm_create")
    /\ \E ok \in Outcomes(/\ Exists(Table(Top.k))
                          /\ Exists(SourceDev(Top.k))
                          /\ Exists(CLoop(Top.k))) :
          /\ Charge(/\ Exists(Table(Top.k))
                    /\ Exists(SourceDev(Top.k))
                    /\ Exists(CLoop(Top.k)), ok)
          /\ IF ok
             THEN /\ held' = held \cup {Dm(Top.k)}
                  /\ tables' = Store(Dm(Top.k), Stored(Table(Top.k)))
                  /\ Goto("reg_dm")
             ELSE UNCHANGED <<held, tables>> /\ Raise
    /\ UNCHANGED <<Media, once, Apart, extent, DiskLists, handles, sessions, written, Logs, Calls>>

\* self._add_cleanup(dmsetup, 'remove', snapshot)
GdRegDm ==
    /\ Running("get_device", "reg_dm")
    /\ ledger' = AddCleanup(ledger, DmRemove(Dm(Top.k)))
    /\ Goto("finally_unlink")
    /\ UNCHANGED <<Media, once, Apart, extent, tables, devices, handles, Os, Logs, Counters>>

\* finally: os.unlink(table), then the pending exception goes on
GdFinallyUnlink ==
    /\ Running("get_device", "finally_unlink")
    /\ held' = held \ {Table(Top.k)}
    /\ tables' = Drop(Table(Top.k))
    /\ IF Top.exc THEN RaiseFrom(Pop(stack)) ELSE Goto("new_device")
    /\ UNCHANGED <<Media, once, Apart, extent, DiskLists, handles, sessions, written, Logs, Counters>>

\* new_device = DiskDevice("/dev/mapper/%s" % snapshot): guestfs opens the
\* path read-write, launches and inspects it; a constructor that raises
\* (launch failure, DiskError) leaves an object nobody refers to
GdNewDevice ==
    /\ Running("get_device", "new_device")
    /\ \E ok \in Outcomes(Exists(DevicePath(Top.k))) :
          /\ Charge(Exists(DevicePath(Top.k)), ok)
          /\ IF ok THEN sessions' = sessions \cup {Device(Top.k)} /\ Goto("append_dev")
             ELSE sessions' = sessions /\ Raise
    /\ UNCHANGED <<Media, once, Apart, extent, tables, DiskLists, handles, held, written, Logs, Calls>>

\* self._devices.append(new_device); return new_device
GdAppendDev ==
    /\ Running("get_device", "append_dev")
    /\ devices' = Append(devices, Device(Top.k))
    /\ handles' = handles \cup {Device(Top.k)}
    /\ Return
    /\ UNCHANGED <<Media, once, Apart, extent, tables, ledger, Os, Logs, Counters>>

\* DiskDevice.shrink (resize2fs_M, part_del, part_add) and every other
\* guestfs call that changes the drive the handle was opened on
DeviceWrite ==
    /\ mainpc = "body" /\ stack = <<>>
    /\ \E d \in handles \cap sessions :
          /\ d.device \notin written
          /\ written' = written \cup {d.device}
    /\ UNCHANGED <<Media, once, Apart, extent, tables, stack, DiskLists, handles, held, sessions, Logs,
                   last, mainpc, Counters>>

\* ----------------------------------------------------------------- cleanup
\* the session body calls disk.cleanup()
CallCleanup ==
    /\ mainpc = "body"
    /\ nCleanups < MaxCleanups
    /\ nCleanups' = nCleanups + 1
    /\ Begin(Frame("cleanup", "dev_check", 0, NoDev, FALSE, 0, 0))
    /\ UNCHANGED <<Media, once, Apart, extent, tables, DiskLists, handles, Os, mainpc,
                   nCalls, nDestroys, nSignals, nFaults>>

\* image_creator: finally: disk.cleanup()
Finally ==
    /\ mainpc = "body"
    /\ mainpc' = "finally"
    /\ Begin(Frame("cleanup", "dev_check", 0, NoDev, FALSE, 0, 0))
    /\ UNCHANGED <<Media, once, Apart, extent, tables, DiskLists, handles, Os, Counters>>

\* gauge.cleanup(): GaugeOutput.cleanup, or the dummy once it was put in
GaugeRun == [gauge EXCEPT !.runs = IF gauge.pc = "dummy" THEN @ ELSE @ + 1]

\* signal_handler(signum, frame): gauge.cleanup(), then disk.cleanup(), on
\* top of whatever runs
Sigint ==
    /\ mainpc \in {"body", "finally"}
    /\ nSignals < MaxSignals
    /\ nSignals' = nSignals + 1
    /\ gauge' = GaugeRun
    /\ stack' = Append(stack, Frame("cleanup", "dev_check", 0, NoDev, TRUE,
                                     Len(invoked), Len(destroyLog)))
    /\ UNCHANGED <<Media, once, mnt, shr, wsp, Customize, extent, tables, DiskLists, handles, Os,
                   Logs, last, mainpc, nCalls, nCleanups, nDestroys, nFaults>>

\* DiskDevice.destroy: umount_all, sync, close
Destroy(d, ok) ==
    /\ destroyLog' = Append(destroyLog, d.id)
    /\ once' = IF ~once.kept THEN once
               ELSE [once EXCEPT !.devs = @ \cup {d},
                       !.again = IF d \in once.devs THEN @ \cup {"destroy"} ELSE @]
    /\ sessions' = IF ok THEN sessions \ {d} ELSE sessions

\* job(*args) of a popped cleanup job
RunJob(j, ok) ==
    /\ invoked' = Append(invoked, [job |-> j, ok |-> ok])
    /\ once' = IF ~once.kept THEN once
               ELSE [once EXCEPT !.jobs = @ \cup {j},
                       !.again = IF j \in once.jobs THEN @ \cup {j.job} ELSE @]
    /\ held' = IF ok THEN held \ {j.arg} ELSE held
    /\ tables' = IF ok THEN Drop(j.arg) ELSE tables
    /\ extent' = IF ok THEN {e \in extent : e.res /= j.arg} ELSE extent

\* os.unlink fails only on a missing file; losetup and dmsetup may fail on
\* a device that exists (busy)
JobOutcomes(j) ==
    IF j.job = "os.unlink" THEN {j.arg \in held} ELSE Outcomes(j.arg \in held)

\* while len(self._devices):
CleanupDevCheck ==
    /\ Running("cleanup", "dev_check")
    /\ IF More(devices) THEN Goto("dev_pop") ELSE Goto("job_check")
    /\ UNCHANGED <<Media, once, Apart, extent, tables, DiskLists, handles, Os, Logs, Counters>>

\* device = self._devices.pop()
CleanupDevPop ==
    /\ Running("cleanup", "dev_pop")
    /\ IF devices = <<>>
       THEN devices' = devices /\ Raise
       ELSE /\ devices' = Taken(devices)
            /\ stack' = SetTop(stack, [Top EXCEPT !.pc = "dev_destroy",
                                                  !.dev = devices[Len(devices)]])
            /\ UNCHANGED <<last, mainpc>>
    /\ UNCHANGED <<Media, once, Apart, extent, tables, ledger, handles, Os, Logs, Counters>>

\* device.destroy()
CleanupDevDestroy ==
    /\ Running("cleanup", "dev_destroy")
    /\ \E ok \in Outcomes(Top.dev \in sessions) :
          /\ Charge(Top.dev \in sessions, ok)
          /\ Destroy(Top.dev, ok)
          /\ IF ok THEN Goto("dev_check") ELSE Raise
    /\ UNCHANGED <<Media, Apart, extent, tables, DiskLists, handles, held, written, invoked, Calls>>

\* while len(self._cleanup_jobs):
CleanupJobCheck ==
    /\ Running("cleanup", "job_check")
    /\ IF More(ledger) THEN Goto("job_pop") ELSE Return
    /\ UNCHANGED <<Media, once, Apart, extent, tables, DiskLists, handles, Os, Logs, Counters>>

\* job, args = self._cleanup_jobs.pop()
CleanupJobPop ==
    /\ Running("cleanup", "job_pop")
    /\ IF ledger = <<>>
       THEN ledger' = ledger /\ Raise
       ELSE /\ ledger' = Taken(ledger)
            /\ stack' = SetTop(stack, [Top EXCEPT !.pc = "job_run",
                                                  !.job = ledger[Len(ledger)]])
            /\ UNCHANGED <<last, mainpc>>
    /\ UNCHANGED <<Media, once, Apart, extent, tables, devices, handles, Os, Logs, Counters>>

\* job(*args)
CleanupJobRun ==
    /\ Running("cleanup", "job_run")
    /\ \E ok \in JobOutcomes(Top.job) :
          /\ Charge(Top.job.arg \in held /\ Top.job.job /= "os.unlink", ok)
          /\ RunJob(Top.job, ok)
          /\ IF ok THEN Goto("job_check") ELSE Raise
    /\ UNCHANGED <<Media, Apart, DiskLists, handles, sessions, written, destroyLog,
                   Calls>>

\* ---------------------------------------------------------- destroy_device
CallDestroyDevice ==
    /\ mainpc = "body"
    /\ nDestroys < MaxDestroys
    /\ nDestroys' = nDestroys + 1
    /\ \E d \in handles \cup {Stranger} :
          Begin(Frame("destroy_device", "remove", d.id, d, FALSE, 0, 0))
    /\ UNCHANGED <<Media, once, Apart, extent, tables, DiskLists, handles, Os, mainpc,
                   nCalls, nCleanups, nSignals, nFaults>>

\* list.remove(x): the list without its first x
Remove_pop(list, x) == Pop(list)
RECURSIVE Remove(_, _)
Remove(list, x) ==
    IF list = <<>> THEN list
    ELSE IF Head(list) = x THEN Tail(list)
    ELSE <<Head(list)>> \o Remove(Tail(list), x)

InList_always(list, x) == TRUE
InList(list, x) == \E i \in 1..Len(list) : list[i] = x

\* self._devices.remove(device)
DestroyDeviceRemove ==
    /\ Running("destroy_device", "remove")
    /\ IF InList(devices, Top.dev)
       THEN devices' = Remove(devices, Top.dev) /\ Goto("destroy")
       ELSE devices' = devices /\ Raise
    /\ UNCHANGED <<Media, once, Apart, extent, tables, ledger, handles, Os, Logs, Counters>>

\* device.destroy()
DestroyDeviceDestroy ==
    /\ Running("destroy_device", "destroy")
    /\ \E ok \in Outcomes(Top.dev \in sessions) :
          /\ Charge(Top.dev \in sessions, ok)
          /\ Destroy(Top.dev, ok)
          /\ IF ok THEN Return ELSE Raise
    /\ UNCHANGED <<Media, Apart, extent, tables, DiskLists, handles, held, written, invoked, Calls>>

\* ------------------------------------------------------------ specification
GetDeviceStep ==
    \/ GdStat \/ GdLosetupSrc \/ GdRegSrc \/ GdBlockdev \/ GdMkstempCow
    \/ GdRegCow \/ GdDd \/ GdLosetupCow \/ GdRegCowdev \/ GdMkstempTable
    \/ GdSetupTry \/ GdWriteTable \/ GdDmCreate \/ GdRegDm \/ GdFinallyUnlink
    \/ GdNewDevice \/ GdAppendDev

CleanupStep ==
    \/ CleanupDevCheck \/ CleanupDevPop \/ CleanupDevDestroy
    \/ CleanupJobCheck \/ CleanupJobPop \/ CleanupJobRun

DestroyDeviceStep == DestroyDeviceRemove \/ DestroyDeviceDestroy

\* one caller, no signal
Next ==
    \/ CallGetDevice \/ GetDeviceStep
    \/ CallDestroyDevice \/ DestroyDeviceStep
    \/ CallCleanup \/ Finally \/ CleanupStep
    \/ DeviceWrite

Spec == Init /\ [][Next]_vars

\* the same session with SIGINT served by signal_handler
NextSig == Next \/ Sigint

SpecSig == Init /\ [][NextSig]_vars

\* SIGINT while cleanup() or destroy_device runs: the handler's cleanup()
\* is entered on top of it
SigintInRelease ==
    /\ stack /= <<>>
    /\ stack[1].op \in {"cleanup", "destroy_device"}
    /\ Sigint

\* get_device, destroy_device and cleanup() in any order on a file source,
\* with signals while a release is under way, in a session where no command
\* fails on an operand that exists: what fails, fails because the
\* handler's cleanup() has released the operand
InitOnce ==
    /\ srcSize = MaxSectors /\ FreshDisk /\ srcType = "REG"
    /\ nFaults = MaxFaults /\ once = Executed(TRUE) /\ Parked

NextOnce ==
    \/ CallGetDevice \/ GetDeviceStep
    \/ CallDestroyDevice \/ DestroyDeviceStep
    \/ CallCleanup \/ Finally \/ CleanupStep
    \/ SigintInRelease

SpecOnce == InitOnce /\ [][NextOnce]_vars

\* SpecSig with the record of what was executed kept
InitSigOnce ==
    /\ srcSize = MaxSectors /\ FreshDisk /\ nFaults = 0
    /\ once = Executed(TRUE) /\ Parked

SpecSigOnce == InitSigOnce /\ [][NextSig]_vars

\* image_creator: gauge.cleanup() once the device is inspected
GaugeCleanup ==
    /\ mainpc = "body" /\ stack = <<>>
    /\ handles /= {}
    /\ gauge.pc = "shown"
    /\ gauge' = [GaugeRun EXCEPT !.pc = "cleaned"]
    /\ UNCHANGED <<DiskVars, mnt, shr, wsp, Customize>>

\* image_creator: gauge.cleanup = type(GaugeOutput.cleanup)(dummy, ...)
GaugeReplace ==
    /\ mainpc = "body" /\ stack = <<>>
    /\ gauge.pc = "cleaned"
    /\ gauge' = [gauge EXCEPT !.pc = "dummy"]
    /\ UNCHANGED <<DiskVars, mnt, shr, wsp, Customize>>

\* main: except Reset: continue -- Reset comes out of image_creator only
\* when the cleanup() of its finally returned; the loop then builds the
\* Disk of the next session
Restart ==
    /\ mainpc = "exited" /\ stack = <<>>
    /\ last.result = "ok"
    /\ mainpc' = "restarted"
    /\ UNCHANGED <<Media, once, Apart, extent, tables, stack, DiskLists, handles, Os,
                   Logs, last, Counters>>

\* image_creator as main runs it: one Disk, its device, the gauge, the
\* menus working on the device, SIGINT, and the way out
NextCreator ==
    \/ CallGetDevice \/ GetDeviceStep
    \/ GaugeCleanup \/ GaugeReplace
    \/ DeviceWrite
    \/ Finally \/ CleanupStep
    \/ Sigint
    \/ Restart

SpecCreator == Init /\ [][NextCreator]_vars

\* a session that only takes snapshots and exits, on media of every size
InitTable == srcSize \in 1..MaxSectors /\ Fresh /\ Parked

NextTable == CallGetDevice \/ GetDeviceStep \/ Finally \/ CleanupStep

SpecTable == InitTable /\ [][NextTable]_vars

\* -------------------------------------------------------- DiskDevice.mount
\* mountpoints as the strings guestfs returns, character by character
RootMp == <<"/">>
MountPoints ==
    {RootMp, <<"/", "a">>, <<"/", "b">>, <<"/", "a", "/", "b">>,
     <<"/", "a", "b">>}

\* the lists inspect_get_mountpoints may return: no mountpoint twice
MountLists ==
    {l \in UNION {[1..n -> MountPoints] : n \in 0..MaxMounts} :
        \A i, j \in 1..Len(l) : i /= j => l[i] /= l[j]}

\* compare(a, b) of mount: by the length of the mountpoint
Compare_none(a, b) == 0
Compare(a, b) ==
    IF Len(a) > Len(b) THEN 1 ELSE IF Len(a) = Len(b) THEN 0 ELSE 0 - 1

\* list.sort(compare) is stable: an item goes behind the items that do not
\* compare greater than it
InsertMp(x, sorted) ==
    LET n == Cardinality({i \in 1..Len(sorted) : Compare(sorted[i], x) <= 0})
    IN  SubSeq(sorted, 1, n) \o <<x>> \o SubSeq(sorted, n + 1, Len(sorted))

RECURSIVE SortMps(_)
SortMps(l) ==
    IF l = <<>> THEN <<>>
    ELSE InsertMp(l[Len(l)], SortMps(SubSeq(l, 1, Len(l) - 1)))

\* mps = self.g.inspect_get_mountpoints(self.root)
MountStart ==
    \E l \in MountLists :
        mnt = [pc |-> "sort", found |-> l, mps |-> l, log |-> <<>>]

\* mps.sort(compare)
MountSort ==
    /\ mnt.pc = "sort"
    /\ mnt' = [mnt EXCEPT !.pc = "loop", !.mps = SortMps(mnt.mps)]
    /\ UNCHANGED <<DiskVars, gauge, shr, wsp, Customize>>

\* for mp, dev in mps: try: self.g.mount(dev, mp)
\* except RuntimeError as msg: print "%s (ignored)" % msg
MountOne ==
    /\ mnt.pc = "loop"
    /\ Len(mnt.log) < Len(mnt.mps)
    /\ \E ok \in BOOLEAN :
          mnt' = [mnt EXCEPT !.log = Append(mnt.log,
                     [mp |-> mnt.mps[Len(mnt.log) + 1], ok |-> ok])]
    /\ UNCHANGED <<DiskVars, gauge, shr, wsp, Customize>>

\* the loop is over and mount returns
MountReturn ==
    /\ mnt.pc = "loop"
    /\ Len(mnt.log) = Len(mnt.mps)
    /\ mnt' = [mnt EXCEPT !.pc = "done"]
    /\ UNCHANGED <<DiskVars, gauge, shr, wsp, Customize>>

\* a new Disk nothing is done with
DiskParked == srcSize = MaxSectors /\ Fresh /\ srcType = "BLK"

InitMount ==
    /\ DiskParked /\ GaugeShown /\ MountStart /\ ShrinkIdle /\ SysprepIdle
    /\ OthersIdle

NextMount == MountSort \/ MountOne \/ MountReturn

SpecMount == InitMount /\ [][NextMount]_vars

\* ------------------------------------------------------- DiskDevice.shrink
SectorSizes == {SectorSize, 4096}     \* self.g.blockdev_getss(dev)
BlockSizes == {1024, 4096}            \* 'Block size' of tune2fs_l
FsTypes == {"ext2", "ext3", "ext4", "ntfs"}

\* re.match("ext[234]", fs_type)
IsExt(fs) == fs \in {"ext2", "ext3", "ext4"}

\* last_partition['part_num'] > 4
Logical_never(n) == FALSE
Logical(n) == n > 4

\* start + (block_size * block_cnt) / sector_size - 1, in Python 2 integers
EndSector_next(start, bytes, ss) == start + bytes \div ss
EndSector(start, bytes, ss) == start + bytes \div ss - 1

\* a guestfs call that changes the drive, with its arguments
GuestOp(name, a, b) == [op |-> name, a |-> a, b |-> b]

\* shrink() is entered on a disk of some layout
ShrinkStart ==
    \E pt \in {"msdos", "gpt"}, n \in 1..MaxPartNum, st \in 0..MaxStart,
       fs \in FsTypes, bs \in BlockSizes, bc \in 1..MaxBlocks,
       ss \in SectorSizes :
        shr = [NoShrink EXCEPT !.pc = "parttype", !.parttype = pt,
                               !.partNum = n, !.partStart = st * SectorSize,
                               !.fsType = fs, !.blockSize = bs,
                               !.blockCnt = bc, !.sectorSize = ss]

ShrinkRaise(error) ==
    shr' = [shr EXCEPT !.pc = "done", !.result = "raised", !.error = error]

\* a guestfs call that changes the drive: it is made, and raises
\* RuntimeError when it fails
ShrinkCall(op, next) ==
    \E ok \in BOOLEAN :
        shr' = [shr EXCEPT !.ops = Append(@, op),
                           !.pc = IF ok THEN next ELSE "done",
                           !.result = IF ok THEN @ ELSE "raised",
                           !.error = IF ok THEN @ ELSE "RuntimeError"]

\* parttype = self.g.part_get_parttype(dev); if parttype != 'msdos': raise
ShrinkPartType ==
    /\ shr.pc = "parttype"
    /\ IF shr.parttype /= "msdos" THEN ShrinkRaise("DiskError")
       ELSE shr' = [shr EXCEPT !.pc = "last"]
    /\ UNCHANGED <<DiskVars, gauge, mnt, wsp, Customize>>

\* last_partition = self.g.part_list(dev)[-1]; if part_num > 4: raise
ShrinkLastPartition ==
    /\ shr.pc = "last"
    /\ IF Logical(shr.partNum) THEN ShrinkRaise("DiskError")
       ELSE shr' = [shr EXCEPT !.pc = "fstype"]
    /\ UNCHANGED <<DiskVars, gauge, mnt, wsp, Customize>>

\* fs_type = self.g.vfs_type(part_dev); if not re.match(...): print
\* "Warning: ..." % vfs_type; return -- no name vfs_type is bound there
ShrinkFsType ==
    /\ shr.pc = "fstype"
    /\ IF ~IsExt(shr.fsType) THEN ShrinkRaise("NameError")
       ELSE shr' = [shr EXCEPT !.pc = "fsck"]
    /\ UNCHANGED <<DiskVars, gauge, mnt, wsp, Customize>>

\* self.g.e2fsck_f(part_dev)
ShrinkFsck ==
    /\ shr.pc = "fsck"
    /\ ShrinkCall(GuestOp("e2fsck_f", shr.partNum, 0), "resize")
    /\ UNCHANGED <<DiskVars, gauge, mnt, wsp, Customize>>

\* self.g.resize2fs_M(part_dev)
ShrinkResize ==
    /\ shr.pc = "resize"
    /\ ShrinkCall(GuestOp("resize2fs_M", shr.partNum, 0), "geometry")
    /\ UNCHANGED <<DiskVars, gauge, mnt, wsp, Customize>>

\* tune2fs_l, blockdev_getss, start = part_start / sector_size, end = ...
ShrinkGeometry ==
    /\ shr.pc = "geometry"
    /\ LET start == shr.partStart \div shr.sectorSize
       IN  shr' = [shr EXCEPT !.pc = "part_del",
                     !.start = start,
                     !.end = EndSector(start, shr.blockSize * shr.blockCnt,
                                       shr.sectorSize)]
    /\ UNCHANGED <<DiskVars, gauge, mnt, wsp, Customize>>

\* self.g.part_del(dev, last_partition['part_num'])
ShrinkPartDel ==
    /\ shr.pc = "part_del"
    /\ ShrinkCall(GuestOp("part_del", shr.partNum, 0), "part_add")
    /\ UNCHANGED <<DiskVars, gauge, mnt, wsp, Customize>>

\* self.g.part_add(dev, 'p', start, end)
ShrinkPartAdd ==
    /\ shr.pc = "part_add"
    /\ ShrinkCall(GuestOp("part_add", shr.start, shr.end), "return")
    /\ UNCHANGED <<DiskVars, gauge, mnt, wsp, Customize>>

\* return (end + 1) * sector_size
ShrinkReturn ==
    /\ shr.pc = "return"
    /\ shr' = [shr EXCEPT !.pc = "done", !.result = "returned",
                 !.value = <<(shr.end + 1) * shr.sectorSize>>]
    /\ UNCHANGED <<DiskVars, gauge, mnt, wsp, Customize>>

InitShrink ==
    /\ DiskParked /\ GaugeShown /\ MountIdle /\ ShrinkStart /\ SysprepIdle
    /\ OthersIdle

NextShrink ==
    \/ ShrinkPartType \/ ShrinkLastPartition \/ ShrinkFsType \/ ShrinkFsck
    \/ ShrinkResize \/ ShrinkGeometry \/ ShrinkPartDel \/ ShrinkPartAdd
    \/ ShrinkReturn

SpecShrink == InitShrink /\ [][NextShrink]_vars

\* ------------------------------------- Windows._exec_sysprep_tasks (sysprep)
\* the two tasks _exec_sysprep_tasks knows by name
ShrinkTask == "shrink"
MsSysprep == "microsoft-sysprep"
\* other @sysprep methods of Windows, by the name sysprep_info gives them
OtherTasks == <<"utc", "clear-logs", "enable-pings", "disable-teredo">>
Others == {OtherTasks[i] : i \in 1..MaxOther}
Tasks == {ShrinkTask, MsSysprep} \cup Others

\* the orders self.list_syspreps() can return the tasks in
Orders(S) ==
    {f \in [1..Cardinality(S) -> S] : \A i, j \in DOMAIN f : f[i] = f[j] => i = j}

Without(list, name) == SelectSeq(list, LAMBDA task : task /= name)

MoveLast_keep(list, size, name) == list

\* enabled = [task for task in enabled if name(task) != name]
\* if len(enabled) != size: enabled.append(task of that name)
MoveLast(list, size, name) ==
    IF Len(Without(list, name)) /= size THEN Append(Without(list, name), name)
    ELSE Without(list, name)

\* do_sysprep has checked that self.syspreped is false and calls
\* _exec_sysprep_tasks on some listing of the tasks, some of them enabled
SysprepStart ==
    \E tasks \in Orders(Tasks), on \in SUBSET Tasks :
        wsp = [NoSysprep EXCEPT !.pc = "list", !.tasks = tasks, !.on = on]

\* tasks = self.list_syspreps(); enabled = [... if task.enabled]; size = len
ExecList ==
    /\ wsp.pc = "list"
    /\ LET enabled == SelectSeq(wsp.tasks, LAMBDA task : task \in wsp.on)
       IN  wsp' = [wsp EXCEPT !.pc = "shrink_last", !.enabled = enabled,
                     !.size = Len(enabled)]
    /\ UNCHANGED <<DiskVars, gauge, mnt, shr, Customize>>

\* make sure shrink runs in the end, before ms sysprep
ExecShrinkLast ==
    /\ wsp.pc = "shrink_last"
    /\ wsp' = [wsp EXCEPT !.pc = "sysprep_last",
                 !.enabled = MoveLast(@, wsp.size, ShrinkTask)]
    /\ UNCHANGED <<DiskVars, gauge, mnt, shr, Customize>>

\* make sure the ms sysprep is the last task to run if it is enabled
ExecSysprepLast ==
    /\ wsp.pc = "sysprep_last"
    /\ wsp' = [wsp EXCEPT !.pc = "loop",
                 !.enabled = MoveLast(@, wsp.size, MsSysprep)]
    /\ UNCHANGED <<DiskVars, gauge, mnt, shr, Customize>>

\* for task in enabled: cnt += 1; task(); setattr(task.im_func, 'executed', True)
\* the task returns, or raises out of _exec_sysprep_tasks;
\* microsoft_sysprep sets self.syspreped once its command has returned
ExecTask ==
    /\ wsp.pc = "loop"
    /\ wsp.cnt < Len(wsp.enabled)
    /\ LET task == wsp.enabled[wsp.cnt + 1]
       IN  \E ok \in BOOLEAN :
             wsp' = [wsp EXCEPT
                       !.cnt = @ + 1,
                       !.ran = Append(@, task),
                       !.executed = IF ok THEN @ \cup {task} ELSE @,
                       !.syspreped = IF ok /\ task = MsSysprep THEN TRUE ELSE @,
                       !.pc = IF ok THEN "loop" ELSE "done",
                       !.result = IF ok THEN @ ELSE "raised"]
    /\ UNCHANGED <<DiskVars, gauge, mnt, shr, Customize>>

\* if not self.syspreped: self._shutdown()
ExecShutdown ==
    /\ wsp.pc = "loop"
    /\ wsp.cnt = Len(wsp.enabled)
    /\ IF wsp.syspreped
       THEN wsp' = [wsp EXCEPT !.pc = "done", !.result = "returned"]
       ELSE \E ok \in BOOLEAN :
              wsp' = [wsp EXCEPT !.pc = "done", !.shutdowns = @ + 1,
                        !.result = IF ok THEN "returned" ELSE "raised"]
    /\ UNCHANGED <<DiskVars, gauge, mnt, shr, Customize>>

InitSysprep ==
    /\ DiskParked /\ GaugeShown /\ MountIdle /\ ShrinkIdle /\ SysprepStart
    /\ OthersIdle

NextSysprep ==
    ExecList \/ ExecShrinkLast \/ ExecSysprepLast \/ ExecTask \/ ExecShutdown

SpecSysprep == InitSysprep /\ [][NextSysprep]_vars

\* ------------------------------------------------ Windows.do_sysprep (dsp)
\* the calls of the boot preparation, in order, inside one try
PrepareSteps ==
    <<"mount", "virtio_state", "reset_passwd", "update_uac_remote_setting",
      "add_boot_scripts", "update_firewalls", "get_windows_systemroot">>
\* the calls made while the VM runs, in order, inside the inner try
VmSteps ==
    <<"wait_on_serial", "check_connectivity", "disable_autologon",
      "exec_sysprep_tasks", "vm.wait">>
\* the calls that revert the boot preparation
RevertSteps == <<"mount", "update_uac_remote_setting", "reset_passwd",
                 "update_firewalls">>

MayCustomize_installed(installed, syspreped) == installed

\* if not WinEXE.is_installed(): raise ...; if self.syspreped: raise ...
MayCustomize(installed, syspreped) == installed /\ ~syspreped

OnExit_outer(phase) == IF phase = "prepare" THEN "umount" ELSE "enable"

\* the finally clause that runs first when control leaves a phase
OnExit(phase) ==
    CASE phase = "prepare" -> "umount"
      [] phase = "start" -> "enable"
      [] phase = "vm" -> "stop"

\* a first do_sysprep on a Windows object: __init__ read syspreped from
\* the registry of the media
DoSysprepStart ==
    \E installed \in BOOLEAN, state \in BOOLEAN, uac \in {0, 1} :
        dsp = [NoDoSysprep EXCEPT !.pc = "guard", !.calls = 1,
                 !.winexe = installed, !.syspreped = state, !.entry = state,
                 !.uac0 = uac, !.uac = uac]

\* a later do_sysprep on the same object: the settings of the media as
\* the earlier call left them are what this call finds
DoSysprepAgain ==
    /\ dsp.pc = "done"
    /\ dsp.calls < MaxSyspreps
    /\ dsp' = [NoDoSysprep EXCEPT !.pc = "guard", !.calls = dsp.calls + 1,
                 !.winexe = dsp.winexe, !.syspreped = dsp.syspreped,
                 !.entry = dsp.syspreped, !.uac0 = dsp.uac, !.uac = dsp.uac,
                 !.msRuns = dsp.msRuns]
    /\ UNCHANGED <<Base, con, wsh, ses>>

DoSysprepLeave(d) ==
    [d EXCEPT !.pc = "done",
              !.result = IF d.failed = "none" THEN "returned" ELSE "raised",
              !.error = IF d.failed = "none" THEN "none"
                        ELSE IF d.failed = "guard" THEN "FatalError"
                        ELSE "Exception"]

DoSysprepGuard ==
    /\ dsp.pc = "guard"
    /\ dsp' = IF MayCustomize(dsp.winexe, dsp.syspreped)
              THEN [dsp EXCEPT !.pc = "prepare", !.step = 1]
              ELSE DoSysprepLeave([dsp EXCEPT !.failed = "guard"])
    /\ UNCHANGED <<Base, con, wsh, ses>>

\* what a call of the boot preparation that returns does to the media
Prepared(d, call) ==
    CASE call = "reset_passwd" -> [d EXCEPT !.passwd = "reset"]
      [] call = "update_uac_remote_setting" ->
            [d EXCEPT !.disabled_uac = (d.uac /= 1), !.uac = 1]
      [] call = "update_firewalls" -> [d EXCEPT !.firewalls = "off"]
      [] OTHER -> d

\* one call of the boot preparation: it returns, or it raises and control
\* goes to the finally of the try
DoSysprepPrepare ==
    /\ dsp.pc = "prepare"
    /\ LET call == PrepareSteps[dsp.step]
           logged == [dsp EXCEPT !.log = Append(@, call)]
       IN  \E ok \in BOOLEAN :
             dsp' = IF ~ok
                    THEN [logged EXCEPT !.failed = call, !.pc = OnExit("prepare")]
                    ELSE IF dsp.step = Len(PrepareSteps)
                    THEN [Prepared(logged, call) EXCEPT !.pc = OnExit("prepare")]
                    ELSE [Prepared(logged, call) EXCEPT !.step = @ + 1]
    /\ UNCHANGED <<Base, con, wsh, ses>>

\* finally: self.umount(silent=True)
DoSysprepUmount ==
    /\ dsp.pc = "umount"
    /\ dsp' = IF dsp.failed = "none" THEN [dsp EXCEPT !.pc = "disable"]
              ELSE DoSysprepLeave(dsp)
    /\ UNCHANGED <<Base, con, wsh, ses>>

\* self.image.disable_guestfs()
DoSysprepDisable ==
    /\ dsp.pc = "disable"
    /\ dsp' = [dsp EXCEPT !.pc = "start", !.guestfs = FALSE,
                 !.log = Append(@, "disable_guestfs")]
    /\ UNCHANGED <<Base, con, wsh, ses>>

\* self.vm.start(): the VM runs, or start raises and no VM runs
DoSysprepVmStart ==
    /\ dsp.pc = "start"
    /\ \E ok \in BOOLEAN :
         dsp' = IF ok
                THEN [dsp EXCEPT !.pc = "vm", !.step = 1, !.vm = TRUE,
                        !.log = Append(@, "vm.start")]
                ELSE [dsp EXCEPT !.pc = OnExit("start"), !.failed = "vm.start",
                        !.log = Append(@, "vm.start")]
    /\ UNCHANGED <<Base, con, wsh, ses>>

\* one call of the inner try; _exec_sysprep_tasks may return after
\* microsoft_sysprep has set self.syspreped
DoSysprepVm ==
    /\ dsp.pc = "vm"
    /\ LET call == VmSteps[dsp.step]
           logged == [dsp EXCEPT !.log = Append(@, call)]
       IN  \E ok \in BOOLEAN, ms \in BOOLEAN :
             /\ ms => (ok /\ call = "exec_sysprep_tasks")
             /\ dsp' = IF ~ok
                       THEN [logged EXCEPT !.failed = call, !.pc = OnExit("vm")]
                       ELSE [logged EXCEPT
                               !.syspreped = @ \/ ms,
                               !.msRuns = IF ms THEN @ + 1 ELSE @,
                               !.step = IF @ = Len(VmSteps) THEN @ ELSE @ + 1,
                               !.pc = IF dsp.step = Len(VmSteps)
                                      THEN OnExit("vm") ELSE @]
    /\ UNCHANGED <<Base, con, wsh, ses>>

\* finally: self.vm.stop(1, fatal=False)
DoSysprepVmStop ==
    /\ dsp.pc = "stop"
    /\ dsp' = [dsp EXCEPT !.pc = OnExit("start"), !.vm = FALSE,
                 !.log = Append(@, "vm.stop")]
    /\ UNCHANGED <<Base, con, wsh, ses>>

\* finally: self.image.enable_guestfs()
DoSysprepEnable ==
    /\ dsp.pc = "enable"
    /\ dsp' = [dsp EXCEPT !.pc = "revert", !.step = 1, !.guestfs = TRUE,
                 !.log = Append(@, "enable_guestfs")]
    /\ UNCHANGED <<Base, con, wsh, ses>>

\* what a call of the revert that is made and returns does to the media
Reverted(d, call) ==
    CASE call = "update_uac_remote_setting" /\ d.disabled_uac ->
            [d EXCEPT !.uac = 0]
      [] call = "reset_passwd" /\ ~d.syspreped -> [d EXCEPT !.passwd = "old"]
      [] call = "update_firewalls" -> [d EXCEPT !.firewalls = "old"]
      [] OTHER -> d

\* if disabled_uac: ...; if not self.syspreped: ...
Made(d, call) ==
    /\ call = "update_uac_remote_setting" => d.disabled_uac
    /\ call = "reset_passwd" => ~d.syspreped

\* one call of "Reverting media boot preparations": it returns, or it
\* raises and do_sysprep is left through the umount of the finally
DoSysprepRevert ==
    /\ dsp.pc = "revert"
    /\ LET call == RevertSteps[dsp.step]
       IN  \E ok \in BOOLEAN :
             /\ ~ok => Made(dsp, call)
             /\ dsp' = IF ~ok
                       THEN DoSysprepLeave([dsp EXCEPT !.failed = call])
                       ELSE IF dsp.step = Len(RevertSteps)
                       THEN DoSysprepLeave(Reverted(dsp, call))
                       ELSE [Reverted(dsp, call) EXCEPT !.step = @ + 1]
    /\ UNCHANGED <<Base, con, wsh, ses>>

InitDoSysprep ==
    /\ DiskParked /\ GaugeShown /\ MountIdle /\ ShrinkIdle /\ SysprepIdle
    /\ DoSysprepStart
    /\ con = NoConnectivity /\ wsh = NoWinShrink /\ ses = NoSession

NextDoSysprep ==
    \/ DoSysprepGuard \/ DoSysprepPrepare \/ DoSysprepUmount
    \/ DoSysprepDisable \/ DoSysprepVmStart \/ DoSysprepVm \/ DoSysprepVmStop
    \/ DoSysprepEnable \/ DoSysprepRevert \/ DoSysprepAgain

SpecDoSysprep == InitDoSysprep /\ [][NextDoSysprep]_vars

\* ----------------------------------------- Windows._check_connectivity (con)
\* exit codes of the remote command: 0, and two that are not
ExitCodes == {0, 1, 2}

Retry_first(i, retries) == i < 1

\* for i in range(retries)
Retry(i, retries) == i < retries

\* retries = self.sysprep_params['connection_retries'].value
ConnStart ==
    \E n \in 0..MaxRetries :
        con = [NoConnectivity EXCEPT !.pc = "check", !.retries = n]

\* if retries == 0: return True
ConnCheck ==
    /\ con.pc = "check"
    /\ con' = IF con.retries = 0
              THEN [con EXCEPT !.pc = "done", !.result = "True"]
              ELSE [con EXCEPT !.pc = "loop"]
    /\ UNCHANGED <<Base, dsp, wsh, ses>>

\* one turn of the loop: rexec('cmd /C', fatal=False); if rc == 0: return True
ConnAttempt ==
    /\ con.pc = "loop"
    /\ Retry(con.i, con.retries)
    /\ \E rc \in ExitCodes :
         con' = IF rc = 0
                THEN [con EXCEPT !.pc = "done", !.result = "True",
                        !.codes = Append(@, rc)]
                ELSE [con EXCEPT !.i = @ + 1, !.codes = Append(@, rc)]
    /\ UNCHANGED <<Base, dsp, wsh, ses>>

\* the loop has ended: raise FatalError("Connection ... failed after %d retries")
ConnRaise ==
    /\ con.pc = "loop"
    /\ ~Retry(con.i, con.retries)
    /\ con' = [con EXCEPT !.pc = "done", !.result = "FatalError"]
    /\ UNCHANGED <<Base, dsp, wsh, ses>>

InitConn ==
    /\ DiskParked /\ GaugeShown /\ MountIdle /\ ShrinkIdle /\ SysprepIdle
    /\ DoSysprepIdle /\ ConnStart /\ wsh = NoWinShrink /\ ses = NoSession

NextConn == ConnCheck \/ ConnAttempt \/ ConnRaise

SpecConn == InitConn /\ [][NextConn]_vars

\* --------------------------------------------------- Windows.shrink (wsh)
\* what the output of SHRINK QUERYMAX holds: no line with 'reclaimable',
\* such a line without "<digits> MB", or such a line with a number
Answers == {"missing", "garbled", "number"}
\* the numbers of MB diskpart may report
Reclaimable == {0, Margin - 1} \cup {Margin + k : k \in 0..MaxReclaim}

\* a diskpart script sent to the VM
Diskpart(part, what, mb) == [partition |-> part, script |-> what, desired |-> mb]

\* the task is called on an image whose last partition has some number
WinShrinkStart ==
    \E part \in 1..MaxPartNum, answer \in Answers, mb \in Reclaimable :
        wsh = [NoWinShrink EXCEPT !.pc = "query", !.part = part,
                 !.answer = answer, !.mb = IF answer = "number" THEN mb ELSE 0]

WinShrinkEnd(w, result, error) ==
    [w EXCEPT !.pc = "done", !.result = result, !.error = error]

\* stdout, stderr, rc = self.vm.rexec(cmd): a failure is fatal
WinShrinkQuery ==
    /\ wsh.pc = "query"
    /\ LET sent == [wsh EXCEPT
                      !.cmds = Append(@, Diskpart(wsh.part, "SHRINK QUERYMAX", 0))]
       IN  \E ok \in BOOLEAN :
             wsh' = IF ok THEN [sent EXCEPT !.pc = "parse", !.answered = TRUE]
                    ELSE WinShrinkEnd(sent, "raised", "FatalError")
    /\ UNCHANGED <<Base, dsp, con, ses>>

\* the loop over stdout.splitlines() and "if querymax is None": both build
\* a FatalError and drop it; querymax = int(querymax) then raises
\* TypeError on None
WinShrinkParse ==
    /\ wsh.pc = "parse"
    /\ wsh' = IF wsh.answer = "number"
              THEN [wsh EXCEPT !.pc = "margin", !.querymax = <<wsh.mb>>]
              ELSE WinShrinkEnd(wsh, "raised", "TypeError")
    /\ UNCHANGED <<Base, dsp, con, ses>>

\* querymax -= 100; if querymax < 0: warn and return
WinShrinkMargin ==
    /\ wsh.pc = "margin"
    /\ LET querymax == wsh.querymax[1] - Margin
       IN  wsh' = IF querymax < 0
                  THEN WinShrinkEnd([wsh EXCEPT !.querymax = <<querymax>>,
                                       !.warned = TRUE], "returned", "none")
                  ELSE [wsh EXCEPT !.querymax = <<querymax>>, !.pc = "shrink"]
    /\ UNCHANGED <<Base, dsp, con, ses>>

\* stdout, stderr, rc = self.vm.rexec(cmd, False); if rc != 0: a
\* FatalError is built and dropped; the task returns
WinShrinkCommand ==
    /\ wsh.pc = "shrink"
    /\ \E rc \in {0, 1} :
         wsh' = WinShrinkEnd(
                  [wsh EXCEPT !.rc = rc,
                     !.cmds = Append(@, Diskpart(wsh.part, "SHRINK DESIRED",
                                                 wsh.querymax[1]))],
                  "returned", "none")
    /\ UNCHANGED <<Base, dsp, con, ses>>

InitWinShrink ==
    /\ DiskParked /\ GaugeShown /\ MountIdle /\ ShrinkIdle /\ SysprepIdle
    /\ DoSysprepIdle /\ con = NoConnectivity /\ WinShrinkStart
    /\ ses = NoSession

NextWinShrink ==
    WinShrinkQuery \/ WinShrinkParse \/ WinShrinkMargin \/ WinShrinkCommand

SpecWinShrink == InitWinShrink /\ [][NextWinShrink]_vars

\* ------------------------------- upload_image and register_image (ses)
\* ses.pithos_uri is 0 when the key is not in the session, and else the
\* number of the upload that stored it; ses.complete holds the uploads
\* whose image file and md5sum file were both stored

\* the cloud menu sets session['account'] or deletes it
SelectCloud ==
    /\ ses.pc = "menu" /\ ses.alive
    /\ \E valid \in BOOLEAN : ses' = [ses EXCEPT !.account = valid]
    /\ UNCHANGED <<Base, dsp, con, wsh>>

OnClientError_keep(session) == [session EXCEPT !.last = "client_error"]

\* except ClientError: if 'pithos_uri' in session: del session['pithos_uri']
OnClientError(session) ==
    [session EXCEPT !.pithos_uri = 0, !.last = "client_error"]

\* an exception that upload_image does not catch leaves the menus and
\* image_creator: main catches only Reset, the session is gone
Crash(session) == [session EXCEPT !.pc = "menu", !.alive = FALSE, !.last = "crash"]

\* upload_image up to the try: no account, or the user cancels the
\* file name, and it returns False; else the upload begins
UploadBegin ==
    /\ ses.pc = "menu" /\ ses.alive
    /\ ses.uploads < MaxUploads
    /\ \E cancel \in BOOLEAN, ok \in BOOLEAN :
         ses' = IF ~ses.account \/ cancel
                THEN [ses EXCEPT !.last = "refused"]
                ELSE IF ok
                THEN [ses EXCEPT !.pc = "image", !.uploads = @ + 1]
                ELSE Crash(ses)
    /\ UNCHANGED <<Base, dsp, con, wsh>>

\* session["pithos_uri"] = kamaki.upload(f, size, filename, ...)
UploadFile ==
    /\ ses.pc = "image"
    /\ \E outcome \in {"ok", "ClientError", "other"} :
         ses' = CASE outcome = "ok" ->
                       [ses EXCEPT !.pc = "md5sum", !.pithos_uri = ses.uploads]
                  [] outcome = "ClientError" ->
                       [OnClientError(ses) EXCEPT !.pc = "menu"]
                  [] OTHER -> Crash(ses)
    /\ UNCHANGED <<Base, dsp, con, wsh>>

\* kamaki.upload(StringIO.StringIO(md5str), ..., "%s.md5sum" % filename)
UploadMd5sum ==
    /\ ses.pc = "md5sum"
    /\ \E outcome \in {"ok", "ClientError", "other"} :
         ses' = CASE outcome = "ok" ->
                       [ses EXCEPT !.pc = "menu", !.last = "uploaded",
                                   !.complete = @ \cup {ses.uploads}]
                  [] outcome = "ClientError" ->
                       [OnClientError(ses) EXCEPT !.pc = "menu"]
                  [] OTHER -> Crash(ses)
    /\ UNCHANGED <<Base, dsp, con, wsh>>

\* register_image: it returns False without an account or a pithos_uri,
\* or when the user cancels the form; else kamaki.register is called
RegisterImage ==
    /\ ses.pc = "menu" /\ ses.alive
    /\ ses.registers < MaxRegisters
    /\ \E cancel \in BOOLEAN :
         ses' = IF ~ses.account \/ ses.pithos_uri = 0 \/ cancel
                THEN [ses EXCEPT !.registers = @ + 1, !.last = "refused"]
                ELSE [ses EXCEPT !.registers = @ + 1, !.last = "registered",
                        !.contacts = @ \cup {[account |-> ses.account,
                                              uri |-> ses.pithos_uri,
                                              stored |-> ses.complete]}]
    /\ UNCHANGED <<Base, dsp, con, wsh>>

InitCloud ==
    /\ DiskParked /\ GaugeShown /\ MountIdle /\ ShrinkIdle /\ SysprepIdle
    /\ OthersIdle

NextCloud ==
    SelectCloud \/ UploadBegin \/ UploadFile \/ UploadMd5sum \/ RegisterImage

SpecCloud == InitCloud /\ [][NextCloud]_vars

\* ------------------------------------------------------------- properties
Reverse(list) == [i \in 1..Len(list) |-> list[Len(list) + 1 - i]]
JobsOf(log) == [i \in 1..Len(log) |-> log[i].job]
Elems(list) == {list[i] : i \in 1..Len(list)}

\* the cleanup job that releases a resource
ReleaseJob(r) ==
    CASE r.kind = "dm" -> DmRemove(r)
      [] r.kind \in {"oloop", "cloop"} -> LosetupD(r)
      [] OTHER -> Unlink(r)

\* loop devices, device-mapper targets and cow files that exist
Leftover == {r \in held : r.kind \in {"oloop", "cloop", "dm", "cow"}}

CallEnded(op) == stack = <<>> /\ last.op = op

\* C1: nothing the program writes reaches the source media or the loop
\* device attached to it, and every guestfs handle (the only thing mount,
\* shrink and the other DiskDevice operations write through) is open on a
\* device-mapper snapshot device.
SourceNeverWritten ==
    /\ \A t \in written : \A r \in Reaches(t) : r.kind \notin {"source", "oloop"}
    /\ \A d \in sessions : d.device.kind = "dm"

\* C1 witness: a DiskDevice operation has written through an open handle.
SourceNeverWrittenWitness ==
    \E d \in sessions : d.device \in written /\ Exists(SourceDev(d.id))

\* C2: when a cleanup() call has ended, the release jobs it called are the
\* jobs the ledger held when it was entered, in reverse order of
\* registration, and the ledger is empty.
CleanupReleasesInReverse ==
    CallEnded("cleanup") =>
        /\ ledger = <<>>
        /\ JobsOf(invoked) = Reverse(last.ledger0)

\* C3: when a cleanup() call has ended, destroy() was called on every
\* handle that was tracked and every job that was in the ledger at its
\* entry was called, whether or not one of them failed.
CleanupSurvivesFailure ==
    CallEnded("cleanup") =>
        /\ \A d \in Elems(last.devices0) : d.id \in Elems(destroyLog)
        /\ \A j \in Elems(last.ledger0) : j \in Elems(JobsOf(invoked))

\* C4: a cleanup() call never ends by raising.
CleanupNeverRaises ==
    CallEnded("cleanup") => last.result = "ok"

\* C5: a cleanup() entered with an empty ledger and no tracked handle (on a
\* fresh Disk, or after a cleanup that completed) calls no release job and
\* no destroy(), and returns normally.
CleanupIdempotent ==
    /\ (/\ stack /= <<>> /\ Top.op = "cleanup"
        /\ Top.ledger0 = <<>> /\ Top.devices0 = <<>>)
       => /\ Top.pc \in {"dev_check", "job_check"}
          /\ Len(invoked) = Top.inv0 /\ Len(destroyLog) = Top.dl0
    /\ (/\ CallEnded("cleanup")
        /\ last.ledger0 = <<>> /\ last.devices0 = <<>>)
       => /\ last.result = "ok"
          /\ invoked = <<>> /\ destroyLog = <<>>
          /\ ledger = <<>> /\ devices = <<>>

\* C5 witness: the session's last cleanup() found nothing to do, after an
\* earlier cleanup() had destroyed a handle and released its snapshot.
CleanupIdempotentWitness ==
    /\ mainpc = "exited" /\ nCleanups = 1 /\ nDestroys = 0
    /\ last.ledger0 = <<>> /\ last.devices0 = <<>>
    /\ handles /= {} /\ sessions = {} /\ held = {}

\* C6: when a cleanup() call has ended, no loop device, device-mapper
\* target or cow file is left, no handle is tracked and the ledger is
\* empty.
AllReleasedAfterCleanup ==
    CallEnded("cleanup") =>
        Leftover = {} /\ devices = <<>> /\ ledger = <<>>

\* get_device call k got both loops and no device-mapper device
DmCreateFailed(k, jobs) ==
    /\ LosetupD(CLoop(k)) \in Elems(jobs)
    /\ DmRemove(Dm(k)) \notin Elems(jobs)

\* C7: a get_device whose dmsetup create fails raises and leaves its
\* entries (origin loop detach for a file source, cow file delete, cow loop
\* detach) in the ledger, and when a later cleanup() has ended the two
\* loops are detached and the cow file is deleted.
DmCreateFailureIsUnwound ==
    /\ (CallEnded("get_device") /\ DmCreateFailed(last.k, ledger))
       => /\ last.result = "raised"
          /\ Unlink(Cow(last.k)) \in Elems(ledger)
          /\ srcType = "REG" => LosetupD(OLoop(last.k)) \in Elems(ledger)
    /\ CallEnded("cleanup")
       => \A k \in 1..nCalls :
             DmCreateFailed(k, last.ledger0)
             => {OLoop(k), Cow(k), CLoop(k)} \cap held = {}

\* the steps of get_device between an acquisition and its _add_cleanup
RegPending == {"reg_src", "reg_cow", "reg_cowdev", "reg_dm"}

\* C8: once an acquisition and its _add_cleanup are both done, and
\* whenever get_device has returned or raised, every loop device, cow file
\* and device-mapper device of that call that exists has its release job
\* in the ledger, and the table file is gone.
AcquiredIsRegistered ==
    /\ (stack /= <<>> /\ Top.op = "get_device" /\ Top.pc \notin RegPending)
       => \A r \in Leftover :
             r.k = Top.k => ReleaseJob(r) \in Elems(ledger)
    /\ CallEnded("get_device")
       => \A r \in held :
             r.k = last.k => r.kind /= "table" /\ ReleaseJob(r) \in Elems(ledger)

\* C8 witness: get_device raised (DiskDevice could not be built) while the
\* loops, the cow file and the device-mapper device of the call exist.
AcquiredIsRegisteredWitness ==
    /\ CallEnded("get_device") /\ last.result = "raised"
    /\ {CLoop(last.k), Cow(last.k), Dm(last.k)} \subseteq held

\* C9: when image_creator has exited after a SIGINT was served, no loop
\* device, cow file or device-mapper target is left; stated for the runs in
\* which no command failed on operands that exist.
InterruptLosesNoResource ==
    (mainpc = "exited" /\ nSignals > 0 /\ nFaults = 0) => Leftover = {}

\* C10: a cleanup() entered from the signal handler while another cleanup()
\* of the Disk is running calls no release job and no destroy().
ReentrantCleanupIsNoOp ==
    (/\ stack /= <<>> /\ Top.op = "cleanup" /\ Top.handler
     /\ \E i \in 1..(Len(stack) - 1) : stack[i].op = "cleanup")
    => /\ Len(invoked) = Top.inv0 /\ Len(destroyLog) = Top.dl0
       /\ Top.pc \notin {"dev_destroy", "job_run"}

\* C11: a get_device called after a cleanup() of the Disk has completed
\* (a cleanup() was called earlier in the session and no command failed, so
\* it returned with both lists empty) acquires no loop device, cow file or
\* device-mapper device, appends nothing to the ledger and ends by raising.
CleanedIsFinal ==
    /\ (/\ stack /= <<>> /\ Top.op = "get_device"
        /\ nCleanups > 0 /\ nFaults = 0
        /\ Top.ledger0 = <<>> /\ Top.devices0 = <<>>)
       => /\ ledger = <<>>
          /\ \A r \in held : r.k /= Top.k
    /\ (/\ CallEnded("get_device") /\ nCleanups > 0 /\ nFaults = 0
        /\ last.ledger0 = <<>> /\ last.devices0 = <<>>)
       => /\ last.result = "raised"
          /\ ledger = <<>> /\ devices = <<>>

\* what has to be gone before a job is called: the device-mapper device
\* before either of its loops is detached, the cow loop before the cow file
\* is deleted
CalledBefore(j) ==
    CASE j.job = "losetup -d" /\ j.arg.kind \in {"cloop", "oloop"} ->
             {DmRemove(Dm(j.arg.k))}
      [] j.job = "os.unlink" /\ j.arg.kind = "cow" ->
             {LosetupD(CLoop(j.arg.k))}
      [] OTHER -> {}

CleanupDestroysHandlesFirst ==
    /\ CallEnded("cleanup") =>
          destroyLog = Reverse([i \in 1..Len(last.devices0) |->
                                   last.devices0[i].id])
    /\ (/\ stack /= <<>> /\ Top.op = "cleanup"
        /\ (invoked /= <<>> \/ Top.pc \in {"job_pop", "job_run"}))
       => \A d \in Elems(Top.devices0) : d.id \in Elems(destroyLog)
    /\ Elems(devices) \subseteq handles

\* C14: destroy_device(d) on a tracked handle calls no ledger job and
\* leaves the ledger as it was; when it has ended d is no longer tracked,
\* the other handles still are, destroy() was called on d alone (and has
\* closed its session unless it raised), and the device-mapper device, the
\* cow loop and the cow file behind d exist and are still registered.
DestroyDeviceKeepsLedger ==
    /\ (/\ stack /= <<>> /\ Top.op = "destroy_device"
        /\ Top.dev \in Elems(Top.devices0))
       => ledger = Top.ledger0 /\ invoked = <<>>
    /\ (CallEnded("destroy_device") /\ last.dev \in Elems(last.devices0))
       => /\ ledger = last.ledger0 /\ invoked = <<>>
          /\ Elems(devices) = Elems(last.devices0) \ {last.dev}
          /\ Len(devices) = Len(last.devices0) - 1
          /\ destroyLog = <<last.dev.id>>
          /\ last.result = "ok" => last.dev \notin sessions
          /\ \A r \in {Dm(last.k), CLoop(last.k), Cow(last.k)} :
                r \in held /\ ReleaseJob(r) \in Elems(ledger)

\* C14 witness: destroy_device has closed the older of two tracked handles.
DestroyDeviceKeepsLedgerWitness ==
    /\ CallEnded("destroy_device") /\ last.result = "ok"
    /\ Len(last.devices0) = 2 /\ last.dev = last.devices0[1]
    /\ last.dev \notin sessions /\ Dm(last.k) \in held

Entries(k) ==
    (IF srcType = "REG" THEN <<LosetupD(OLoop(k))>> ELSE <<>>)
    \o <<Unlink(Cow(k)), LosetupD(CLoop(k)), DmRemove(Dm(k))>>

\* C16: when a get_device call has returned, whatever calls came before,
\* its cow file, cow loop and device-mapper device exist and are none of
\* those of an earlier call; the ledger is the ledger at entry followed by
\* the entries of this call, every entry of it names a resource that
\* exists, and the new handle is tracked after the earlier ones, on a
\* device of its own.
EachCallOwnOverlay ==
    (CallEnded("get_device") /\ last.result = "ok") =>
        /\ {Cow(last.k), CLoop(last.k), Dm(last.k)} \subseteq held
        /\ ledger = last.ledger0 \o Entries(last.k)
        /\ Elems(last.ledger0) \cap Elems(Entries(last.k)) = {}
        /\ \A j \in Elems(ledger) : j.arg \in held
        /\ devices = Append(last.devices0, Device(last.k))
        /\ \A d \in Elems(last.devices0) : d.device /= DevicePath(last.k)

\* C16 witness: a second get_device has returned while the overlay of the
\* first exists and is registered.
EachCallOwnOverlayWitness ==
    /\ CallEnded("get_device") /\ last.result = "ok" /\ last.k = 2
    /\ {Dm(1), CLoop(1), Cow(1)} \subseteq held
    /\ DmRemove(Dm(1)) \in Elems(last.ledger0)
    /\ Len(devices) = 2

LiveRootIsBundled ==
    (srcType = "ROOT" /\ CallEnded("get_device")) =>
        /\ last.result = "ok"
        /\ \A r \in held : r.kind /= "dm"
        /\ \A r \in Leftover : ReleaseJob(r) \in Elems(ledger)

\* C19: a block-device source never has a loop device attached to it, and
\* no job that is registered, popped or called names the source itself;
\* when get_device has ended on a regular file whose loop device exists,
\* the losetup -d of that loop is in the ledger.
BlockSourceUsedDirectly ==
    /\ srcType = "BLK" => \A r \in held : r.kind /= "oloop"
    /\ \A j \in Elems(ledger) \cup Elems(JobsOf(invoked)) :
          /\ j.arg /= Source
          /\ srcType = "BLK" => j.arg.kind /= "oloop"
    /\ \A i \in 1..Len(stack) : stack[i].job.arg /= Source
    /\ (CallEnded("get_device") /\ srcType = "REG")
       => /\ OLoop(last.k) \in held
             => LosetupD(OLoop(last.k)) \in Elems(ledger)
          /\ Dm(last.k) \in held => OLoop(last.k) \in held

\* C19 witness: a cleanup() has released a whole snapshot of a block
\* device.
BlockSourceUsedDirectlyWitness ==
    /\ srcType = "BLK" /\ CallEnded("cleanup") /\ last.result = "ok"
    /\ \E k \in 1..nCalls :
          {DmRemove(Dm(k)), LosetupD(CLoop(k)), Unlink(Cow(k))}
              \subseteq Elems(JobsOf(invoked))

\* C20: the line in every table file get_device has written, and in every
\* device-mapper device made from one, is 0, the sector count of the
\* source media, snapshot, the device the call uses as origin (the source,
\* or the loop device on it), the cow loop device of the call, n, 8.
TableLineExact ==
    \A t \in tables :
        /\ Len(t.line) = 7
        /\ t.line[1] = 0
        /\ t.line[2] = srcSize
        /\ t.line[3] = "snapshot"
        /\ t.line[4] = (IF srcType = "REG" THEN OLoop(t.res.k) ELSE Source)
        /\ t.line[5] = CLoop(t.res.k)
        /\ t.line[6] = "n"
        /\ t.line[7] = 8

\* C20 witness: a device-mapper device exists, made on the loop device of
\* a regular file of one sector.
TableLineExactWitness ==
    /\ srcType = "REG" /\ srcSize = 1
    /\ \E t \in tables : t.res.kind = "dm" /\ t.res \in held

\* C21: a cow file that has a loop device attached to it is as large as
\* the source media: its size in bytes is the sector count blockdev
\* reports times the sector size.
CowExtentMatchesSource ==
    \A e \in extent :
        CLoop(e.res.k) \in held => e.bytes = srcSize * SectorSize

\* C22: when a cleanup() has ended in which a dmsetup remove failed, the
\* same remove was called again after the failure, the cleanup returned
\* normally and every job the ledger held at its entry was called.
DmRemoveIsRetried ==
    CallEnded("cleanup") =>
        \A i \in 1..Len(invoked) :
            (invoked[i].job.job = "dmsetup remove" /\ ~invoked[i].ok) =>
                /\ \E h \in (i + 1)..Len(invoked) :
                      invoked[h].job = invoked[i].job
                /\ last.result = "ok"
                /\ \A j \in Elems(last.ledger0) : j \in Elems(JobsOf(invoked))

\* C23: a Disk that has been constructed and not cleaned up has a ledger
\* whose first entry is the removal of its scratch directory, which is none
\* of the jobs get_device registers.
ScratchDirRegisteredFirst ==
    (mainpc = "body" /\ nCleanups = 0 /\ nSignals = 0) =>
        /\ ledger /= <<>>
        /\ ledger[1].job \notin {"losetup -d", "os.unlink", "dmsetup remove"}

\* mountpoint p is a path ancestor of mountpoint q
Ancestor(p, q) ==
    /\ Len(p) < Len(q)
    /\ SubSeq(q, 1, Len(p)) = p
    /\ p = RootMp \/ q[Len(p) + 1] = "/"

\* C24: when mount() has returned, g.mount was called exactly once for
\* every mountpoint guestfs found, whether or not earlier calls failed, and
\* for a mountpoint that is a path ancestor of another one before it was
\* called for the other.
MountOrder ==
    mnt.pc = "done" =>
        /\ Len(mnt.log) = Len(mnt.found)
        /\ \A i \in 1..Len(mnt.found) :
              Cardinality({h \in 1..Len(mnt.log) :
                              mnt.log[h].mp = mnt.found[i]}) = 1
        /\ \A i, j \in 1..Len(mnt.log) :
              Ancestor(mnt.log[i].mp, mnt.log[j].mp) => i < j

\* C24 witness: mount() has returned after guestfs listed /a/b before /a
\* and /a before /, and the mount of / failed.
MountOrderWitness ==
    /\ mnt.pc = "done" /\ Len(mnt.found) = 3
    /\ Ancestor(mnt.found[2], mnt.found[1])
    /\ mnt.found[3] = RootMp
    /\ ~mnt.log[1].ok /\ mnt.log[3].ok

\* C25: when shrink() has returned a size on an msdos disk whose last
\* partition is primary and holds ext2/3/4, its calls were e2fsck_f,
\* resize2fs_M, part_del of the last partition and part_add of a primary
\* partition from the old start sector to start + (block size * block
\* count) / sector size - 1, the size is (end + 1) * sector size, and that
\* is part_start + block size * block count when both are multiples of the
\* sector size.
ShrinkGeometryExact ==
    (shr.pc = "done" /\ shr.result = "returned" /\ shr.value /= <<>>) =>
        LET ss == shr.sectorSize
            bytes == shr.blockSize * shr.blockCnt
            first == shr.partStart \div ss
            final == first + (bytes \div ss) - 1
        IN  /\ shr.parttype = "msdos" /\ shr.partNum <= 4
            /\ shr.fsType \in {"ext2", "ext3", "ext4"}
            /\ shr.ops = <<GuestOp("e2fsck_f", shr.partNum, 0),
                           GuestOp("resize2fs_M", shr.partNum, 0),
                           GuestOp("part_del", shr.partNum, 0),
                           GuestOp("part_add", first, final)>>
            /\ shr.value = <<(final + 1) * ss>>
            /\ (shr.partStart % ss = 0 /\ bytes % ss = 0)
               => shr.value[1] = shr.partStart + bytes

\* C25 witness: shrink() has returned the size of a disk whose last
\* partition starts at sector 2 and whose filesystem has two blocks.
ShrinkGeometryExactWitness ==
    /\ shr.pc = "done" /\ shr.result = "returned"
    /\ shr.partStart = 2 * shr.sectorSize /\ shr.blockCnt = 2
    /\ shr.value = <<shr.partStart + 2 * shr.blockSize>>

\* C26: on a disk whose partition table is not msdos, or whose last
\* partition has a number above 4, shrink() makes no call that changes the
\* drive and ends by raising DiskError.
ShrinkRefusesLayout ==
    (shr.pc /= "idle" /\ (shr.parttype /= "msdos" \/ shr.partNum > 4)) =>
        /\ shr.ops = <<>>
        /\ shr.pc \in {"parttype", "last", "done"}
        /\ shr.pc = "done" => shr.result = "raised" /\ shr.error = "DiskError"

\* C26 witness: shrink() has raised on an msdos disk whose last partition
\* is number 5 and holds ext4.
ShrinkRefusesLayoutWitness ==
    /\ shr.pc = "done" /\ shr.parttype = "msdos" /\ shr.partNum = 5
    /\ shr.fsType = "ext4" /\ shr.error = "DiskError"

\* C27: on an msdos disk whose last partition is primary and holds no
\* ext2/3/4 filesystem, shrink() makes no call that changes the drive and
\* returns normally, with no size.
ShrinkSkipsOtherFs ==
    (/\ shr.pc /= "idle" /\ shr.parttype = "msdos" /\ shr.partNum <= 4
     /\ shr.fsType \notin {"ext2", "ext3", "ext4"}) =>
        /\ shr.ops = <<>>
        /\ shr.pc = "done" => shr.result = "returned" /\ shr.value = <<>>

\* C28: image_creator leaves its body only into the cleanup() of its
\* finally, and has exited only after that cleanup() ended; and when main
\* goes on to the next session after the one get_device of the session had
\* returned and no command failed, no loop device, cow file or
\* device-mapper device of the old Disk exists and no guestfs session of
\* it is open.
CleanupOnEveryWayOut ==
    /\ mainpc = "finally" =>
          stack /= <<>> /\ stack[1].op = "cleanup" /\ ~stack[1].handler
    /\ mainpc \in {"exited", "restarted"} => last.op = "cleanup"
    /\ (mainpc = "restarted" /\ nFaults = 0 /\ nCalls = 1 /\ handles /= {})
       => Leftover = {} /\ sessions = {}

\* C29: GaugeOutput.cleanup of the initialization gauge runs at most once.
GaugeCleanedOnce ==
    gauge.runs <= 1

\* C30: _exec_sysprep_tasks calls no task twice and none that is not
\* enabled; after shrink it calls nothing but microsoft-sysprep, and after
\* microsoft-sysprep nothing at all; when it returns it has called every
\* enabled task, and it has sent the shut-down command once if the
\* Microsoft sysprep did not run and not at all if it did.
SysprepOrder ==
    LET ran == wsp.ran
        n == Len(ran)
    IN  /\ \A i, j \in 1..n : ran[i] = ran[j] => i = j
        /\ Elems(ran) \subseteq wsp.on
        /\ \A i, j \in 1..n :
              (i < j /\ ran[i] = ShrinkTask) => ran[j] = MsSysprep
        /\ \A i \in 1..n : ran[i] = MsSysprep => i = n
        /\ wsp.shutdowns > 0 => (wsp.executed = wsp.on /\ MsSysprep \notin wsp.on)
        /\ (wsp.pc = "done" /\ wsp.result = "returned") =>
              /\ Elems(ran) = wsp.on /\ wsp.executed = wsp.on
              /\ wsp.syspreped = (MsSysprep \in wsp.on)
              /\ wsp.shutdowns = IF MsSysprep \in wsp.on THEN 0 ELSE 1

\* every task is enabled, listed with shrink and microsoft-sysprep first
SysprepOrderWitness ==
    /\ wsp.pc = "done" /\ wsp.result = "returned"
    /\ wsp.on = Tasks
    /\ wsp.tasks[1] = MsSysprep /\ wsp.tasks[2] = ShrinkTask
    /\ wsp.ran[Len(wsp.ran) - 1] = ShrinkTask
    /\ wsp.ran[Len(wsp.ran)] = MsSysprep
    /\ wsp.shutdowns = 0

\* the place of the first entry of a log that is a given call, 0 if none
First(log, call) ==
    IF \E i \in 1..Len(log) : log[i] = call
    THEN CHOOSE i \in 1..Len(log) :
            log[i] = call /\ \A j \in 1..(i - 1) : log[j] /= call
    ELSE 0

\* C31: in do_sysprep the VM never runs while the guestfs session is
\* enabled: the VM is started only after disable_guestfs, stopped before
\* enable_guestfs, and a do_sysprep that called disable_guestfs has called
\* enable_guestfs when it ends, however it ends.
VmAndGuestfsApart ==
    LET off == First(dsp.log, "disable_guestfs")
        on == First(dsp.log, "enable_guestfs")
        start == First(dsp.log, "vm.start")
        stop == First(dsp.log, "vm.stop")
    IN  /\ ~(dsp.vm /\ dsp.guestfs)
        /\ start > 0 => (0 < off /\ off < start)
        /\ on > 0 => (off < on /\ (dsp.vm \/ stop > 0 => (start < stop /\ stop < on)))
        /\ dsp.pc = "done" =>
              /\ dsp.guestfs /\ ~dsp.vm
              /\ off > 0 => on > 0

\* the VM was started and the connection to it failed
VmAndGuestfsApartWitness ==
    /\ dsp.pc = "done" /\ dsp.result = "raised"
    /\ dsp.failed = "check_connectivity"
    /\ First(dsp.log, "vm.start") > 0
    /\ First(dsp.log, "vm.stop") > First(dsp.log, "check_connectivity")
    /\ First(dsp.log, "enable_guestfs") > First(dsp.log, "vm.stop")

\* C32: when do_sysprep ends, the firewall states and the UAC remote
\* setting of the media are what they were when it began, and so is the
\* administrator password unless Microsoft sysprep ran.
SettingsRestored ==
    dsp.pc = "done" =>
        /\ dsp.firewalls = "old"
        /\ dsp.uac = dsp.uac0
        /\ dsp.passwd = "old" \/ dsp.syspreped

\* C33: a do_sysprep that begins after Microsoft sysprep has run makes no
\* call at all (no mount, no disable_guestfs, no VM) and ends with
\* FatalError; Microsoft sysprep never runs twice.
SyspreppedIsFinal ==
    /\ dsp.msRuns <= 1
    /\ dsp.entry =>
          /\ dsp.log = <<>>
          /\ dsp.pc \in {"guard", "done"}
          /\ dsp.guestfs /\ ~dsp.vm /\ dsp.passwd = "old"
          /\ dsp.pc = "done" =>
                dsp.result = "raised" /\ dsp.error = "FatalError"

\* the first do_sysprep ran Microsoft sysprep, the second was refused
SyspreppedIsFinalWitness ==
    /\ dsp.calls = 2 /\ dsp.msRuns = 1 /\ dsp.winexe
    /\ dsp.pc = "done" /\ dsp.result = "raised" /\ dsp.error = "FatalError"

\* C34: _check_connectivity with connection_retries = n makes at most n
\* attempts and none after one that exits with 0; it returns True after
\* the first attempt that exits with 0, or at once and with no attempt
\* when n is 0; it raises FatalError exactly when n > 0 attempts were made
\* and every one of them failed.
ConnectivityBounded ==
    LET made == Len(con.codes)
        failed(k) == \A j \in 1..k : con.codes[j] /= 0
    IN  /\ made <= con.retries
        /\ failed(made - 1)
        /\ con.pc /= "done" => failed(made)
        /\ con.pc = "done" =>
              /\ con.result \in {"True", "FatalError"}
              /\ con.result = "True" <=>
                    (IF con.retries = 0 THEN made = 0
                     ELSE made > 0 /\ con.codes[made] = 0)
              /\ con.result = "FatalError" <=>
                    (con.retries > 0 /\ made = con.retries /\ failed(made))

\* three retries allowed, the second attempt connects
ConnectivityBoundedWitness ==
    /\ con.pc = "done" /\ con.result = "True"
    /\ con.retries = 3 /\ Len(con.codes) = 2 /\ con.codes[1] /= 0

\* C35: when the query command has returned, the Windows shrink task ends
\* with FatalError if the output holds no number of reclaimable MB, warns
\* and sends no shrink command if fewer than 100 MB are reclaimable,
\* and otherwise sends one shrink command for exactly that number less
\* 100 MB, and ends with FatalError if that command exits with a code
\* other than 0.
WinShrinkFailsLoudly ==
    (wsh.pc = "done" /\ wsh.answered) =>
        LET sent == Len(wsh.cmds)
            fatal == wsh.result = "raised" /\ wsh.error = "FatalError"
        IN  /\ wsh.answer /= "number" => (fatal /\ sent = 1)
            /\ (wsh.answer = "number" /\ wsh.mb < Margin) =>
                  (wsh.warned /\ sent = 1 /\ wsh.result = "returned")
            /\ (wsh.answer = "number" /\ wsh.mb >= Margin) =>
                  /\ sent = 2
                  /\ wsh.cmds[2] =
                        Diskpart(wsh.part, "SHRINK DESIRED", wsh.mb - Margin)
                  /\ IF wsh.rc = 0 THEN wsh.result = "returned" ELSE fatal

\* C36: every kamaki.register call of register_image was made with an
\* account and with the pithos_uri of an upload whose image file and
\* md5sum file had both been stored; between the menu's operations the
\* session holds a pithos_uri only of such an upload, and none after an
\* upload that failed with a client error.
UploadGatesRegister ==
    /\ \A c \in ses.contacts :
          c.account /\ c.uri /= 0 /\ c.uri \in c.stored
    /\ (ses.pc = "menu" /\ ses.alive) =>
          /\ ses.pithos_uri /= 0 => ses.pithos_uri \in ses.complete
          /\ ses.last = "client_error" => ses.pithos_uri = 0

\* a first upload succeeded, a second one stored the image file and
\* failed on the md5sum file, and the registration that followed was
\* refused
UploadGatesRegisterWitness ==
    /\ ses.pc = "menu" /\ ses.alive /\ ses.account
    /\ ses.uploads = 2 /\ ses.complete = {1} /\ ses.pithos_uri = 0
    /\ ses.registers = 1 /\ ses.contacts = {} /\ ses.last = "refused"

\* C37: over get_device, destroy_device, cleanup() and the cleanup() of
\* the signal handler, interleaved in any way, no release job that was
\* registered is called a second time and no DiskDevice is destroyed a
\* second time.
ExecutedAtMostOnce ==
    /\ once.kept /\ once.again = {}
    /\ \A i, j \in 1..Len(invoked) : invoked[i].job = invoked[j].job => i = j
    /\ \A i, j \in 1..Len(destroyLog) : destroyLog[i] = destroyLog[j] => i = j

\* the signal handler's cleanup() is about to end inside a cleanup() of
\* the session: the outer one had called a release job before the signal,
\* the inner one called the jobs that were left, and a DiskDevice was
\* destroyed
ExecutedAtMostOnceWitness ==
    /\ Len(stack) = 2 /\ stack[1].op = "cleanup" /\ ~stack[1].handler
    /\ Top.op = "cleanup" /\ Top.handler /\ Top.pc = "job_check"
    /\ ledger = <<>>
    /\ Top.inv0 > 0 /\ Len(invoked) > Top.inv0 + 1
    /\ Cardinality(once.jobs) = Len(invoked) /\ once.devs /= {}

====
